---- MODULE Spec2Model ----
(***************************************************************************)
(* Model of the per-workspace preferences registry (PreferencesAPI), of    *)
(* the C++ code deployers and of their composition root DebugDeploy        *)
(* (debugdeploy.ts) of vscode-wpilib.                                      *)
(*                                                                         *)
(* The runtime is single threaded and cooperative: every action below is   *)
(* the code that runs between two suspension points (await), so every      *)
(* state of the model is a point at which another callback may run.        *)
(***************************************************************************)
EXTENDS Integers, Sequences, FiniteSets, TLC

\* ------------------------------------------------------------------ bounds
\* Number of workspace-folder changes the editor makes in one behaviour.
MaxEvents == 2
\* Number of dispose() calls made on one object in one behaviour.
MaxDisposeCalls == 2
\* Number of workspace-folder changes while commands run (SpecDeploy).
MaxRunEvents == 1
\* Number of artifacts / simulation targets a descriptor lists.
MaxTargets == 2

\* ------------------------------------------------------------ environment
\* A workspace folder is identified by its uri; the editor hands out one Uri
\* object per folder, so `p.workspace.uri === workspace.uri` is equality here.
Folders == {"/r", "/s"}

\* Absent store (undefined), absent folder (undefined).
NoStore == 0
NoFolder == "none"

\* The non-repeating folder lists the editor can report.
FolderLists ==
  {<<>>} \cup {<<f>> : f \in Folders}
         \cup {<<f, g>> : <<f, g>> \in {p \in Folders \X Folders : p[1] # p[2]}}

\* vscode.workspace.workspaceFolders: WorkspaceFolder[] | undefined.
UndefinedFolders == [defined |-> FALSE, list |-> <<>>]
WorkspaceFolderValues ==
  {UndefinedFolders} \cup {[defined |-> TRUE, list |-> l] : l \in FolderLists}

\* The set of folders open under a value of workspaceFolders.
OpenSet(wf) == IF wf.defined THEN {wf.list[k] : k \in 1..Len(wf.list)} ELSE {}

VARIABLES
  workspaceFolders,  \* vscode.workspace.workspaceFolders
  phase,             \* "init" while Create() awaits asyncInitialize, then "ready"
  initWp,            \* asyncInitialize: the snapshot `workspaces`
  initI,             \* asyncInitialize: next index of its for loop
  stores,            \* every Preferences object ever created, by id
  preferences,       \* this.preferences: ids of the stores held
  disposables,       \* this.disposables
  handlers,          \* folder-change handlers suspended in Preferences.Create
  listening,         \* the onDidChangeWorkspaceFolders subscription is live
  emitterDisposed,   \* preferencesEmitter.dispose() was called
  disposeCalls,      \* number of PreferencesAPI.dispose() calls made
  inFlightAtDispose, \* a handler was suspended when dispose() was first called
  nChanges,          \* folder-set changes made by the editor
  nEvents,           \* change events delivered to the registry's listener
  storesBefore,      \* number of stores that existed when the last event came
  prevFolders,       \* workspaceFolders before the last delivered event
  fired,             \* preferencesEmitter.fire calls, in order
  lookup,            \* the last getPreferences call: [folder, result]
  cmd,               \* the frame of the command (deployer call or folder
                     \* selection) that runs or ran last
  deployApi,         \* the host's deployer registry (IDeployDebugAPI): the
                     \* language choices and deployers registered with it
  root               \* the composition root (DebugDeploy), once constructed

regVars == <<workspaceFolders, phase, initWp, initI, stores, preferences,
             disposables, handlers, listening, emitterDisposed, disposeCalls,
             inFlightAtDispose, nChanges, nEvents, storesBefore, prevFolders,
             fired, lookup>>

rootVars == <<deployApi, root>>

vars == <<regVars, cmd, rootVars>>

\* ------------------------------------------------------------- the stores
\* Preferences.Create(w): a new store whose workspace is w.
NewStore(w) == [workspace |-> w, disposed |-> FALSE]

\* p.dispose() for every store id in ids.
DisposeStores(sts, ids) ==
  [k \in 1..Len(sts) |->
     IF k \in ids THEN [sts[k] EXCEPT !.disposed = TRUE] ELSE sts[k]]

Range(s) == {s[k] : k \in 1..Len(s)}

\* Entries of this.disposables.
EmitterD == [k |-> "emitter", id |-> 0]
ListenerD == [k |-> "listener", id |-> 0]
StoreD(id) == [k |-> "store", id |-> id]
\* Mutant of StoreDs: the stores are never added to this.disposables.
StoreDs_Forgotten(prefs) == <<>>

StoreDs(prefs) == [k \in 1..Len(prefs) |-> StoreD(prefs[k])]

\* ---------------------------------------------------------- getPreferences
RECURSIVE getPreferencesFrom(_, _, _, _)
getPreferencesFrom(prefs, sts, ws, k) ==
  IF k > Len(prefs)
    THEN IF Len(prefs) = 0 THEN NoStore ELSE prefs[1]
    ELSE IF sts[prefs[k]].workspace = ws
           THEN prefs[k]
           ELSE getPreferencesFrom(prefs, sts, ws, k + 1)

\* Mutant of getPreferences: no fallback to the first store on a miss.
getPreferences_NoFallback(prefs, sts, ws) ==
  LET hits == {k \in 1..Len(prefs) : sts[prefs[k]].workspace = ws}
  IN IF hits = {} THEN NoStore
     ELSE prefs[CHOOSE k \in hits : \A j \in hits : k <= j]

getPreferences(prefs, sts, ws) == getPreferencesFrom(prefs, sts, ws, 1)

\* ------------------------------------------------------ external inputs
\* Language tags a store can report (Preferences.getCurrentLanguage).
Languages == {"none", "cpp", "java"}
\* Team numbers handed to runDeployer.
Teams == {1, 900}
\* Exit codes of the build-runner (gradleRun).
ExitCodes == {0, 1}
\* Loadable extensions a simulation target can declare.
ExtLists == {<<>>, <<"/ext/a.so">>, <<"/ext/a.so", "/ext/b.so">>}
\* Shared-object lists of a descriptor.
SoFileChoices ==
  {<<>>, <<"/a/x.so", "/a/x.so">>, <<"/a/x.so", "/a/y.so", "/b/z.so">>}
\* The fields of a resolved target descriptor (ICppDebugCommand) that vary;
\* sysroot is <<>> for null and <<path>> otherwise.
TargetDescs ==
  [sofiles : SoFileChoices, clang : BOOLEAN, sysroot : {<<>>, <<"/sysroot">>}]

\* ------------------------------------------------------------ node's path
\* path.sep and path.delimiter of the host platform.
PathSep(windows) == IF windows THEN "\\" ELSE "/"
PathDelimiter(windows) == IF windows THEN ";" ELSE ":"

\* path.join(a, b, ...) of already normalised segments.
RECURSIVE PathJoin(_, _)
PathJoin(segs, windows) ==
  IF Len(segs) = 1 THEN segs[1]
  ELSE segs[1] \o PathSep(windows) \o PathJoin(Tail(segs), windows)

\* Index of the last "/" of p, 0 when there is none.
RECURSIVE LastSlash(_, _)
LastSlash(p, k) ==
  IF k = 0 THEN 0
  ELSE IF SubSeq(p, k, k) = "/" THEN k ELSE LastSlash(p, k - 1)

\* path.dirname(p) and path.basename(p) for a path without trailing slash.
Dirname(p) ==
  LET k == LastSlash(p, Len(p))
  IN IF k = 0 THEN "." ELSE IF k = 1 THEN "/" ELSE SubSeq(p, 1, k - 1)
Basename(p) == SubSeq(p, LastSlash(p, Len(p)) + 1, Len(p))

\* ------------------------------------------------------ the command frame
\* sofiles: the shared-object list of the descriptor the launch configuration
\* was built from (targetInfoParsed.sofiles / targetSimulateInfo.sofiles).
\* An external call made by a command, and its return.
Call(op, arg) == [op |-> op, ph |-> "call", arg |-> arg]
Ret(op, val) == [op |-> op, ph |-> "ret", arg |-> val]

IdleCmd ==
  [op |-> "none", kind |-> "-", pc |-> "idle", team |-> 0,
   workspace |-> NoFolder, windows |-> FALSE, result |-> "pending",
   calls |-> <<>>, n |-> 0, target |-> 0, exts |-> <<>>, extensions |-> "",
   store |-> NoStore, language |-> "-", wp |-> UndefinedFolders,
   folder |-> NoFolder, sofiles |-> <<>>]

\* The command returned v / threw.
Returned(c, v) == [c EXCEPT !.pc = "done", !.result = v]
Raised(c) == [c EXCEPT !.pc = "done", !.result = "raised"]
\* The command made an external call and is suspended at pc until it returns.
Await(c, pc, op, arg) ==
  [c EXCEPT !.pc = pc, !.calls = Append(@, Call(op, arg))]
\* The awaited call returned val.
Resumed(c, val) ==
  [c EXCEPT !.calls = Append(@, Ret(c.calls[Len(c.calls)].op, val))]

\* ---------------------------------------------------- the deployer registry
\* The registry of a host with which nothing is registered yet.
NoRegistrations ==
  [languages |-> <<>>, codeDeploy |-> <<>>, codeDebug |-> <<>>,
   codeSimulate |-> <<>>]

\* No DebugDeploy constructed yet.
NoRoot == [constructed |-> FALSE, allowDebug |-> FALSE, disposeCalls |-> 0]

\* What an awaited readFileAsync yields: the parsed content (an index of n
\* entries, or one target descriptor), or a rejection.
ReadOk(what, n) == [what |-> what, n |-> n]
ReadError == [what |-> "error", n |-> 0]

\* ------------------------------------------------------------------- Init
Init ==
  /\ workspaceFolders \in WorkspaceFolderValues
  /\ phase = "init"
  /\ initWp = workspaceFolders.list
  /\ initI = 1
  /\ stores = <<>>
  /\ preferences = <<>>
  /\ disposables = <<>>
  /\ handlers = {}
  /\ listening = FALSE
  /\ emitterDisposed = FALSE
  /\ disposeCalls = 0
  /\ inFlightAtDispose = FALSE
  /\ nChanges = 0
  /\ nEvents = 0
  /\ storesBefore = 0
  /\ prevFolders = workspaceFolders
  /\ fired = <<>>
  /\ lookup = [folder |-> NoFolder, result |-> NoStore]
  /\ cmd = IdleCmd
  /\ deployApi = NoRegistrations
  /\ root = NoRoot

\* -------------------------------------------------------- asyncInitialize
\* One turn of the for loop: Preferences.Create(w) resolves, the store is pushed.
InitCreate ==
  /\ phase = "init"
  /\ initI <= Len(initWp)
  /\ stores' = Append(stores, NewStore(initWp[initI]))
  /\ preferences' = Append(preferences, Len(stores) + 1)
  /\ initI' = initI + 1
  /\ UNCHANGED <<rootVars, cmd, workspaceFolders, phase, initWp, disposables, handlers,
                 listening, emitterDisposed, disposeCalls, inFlightAtDispose,
                 nChanges, nEvents, storesBefore, prevFolders, fired, lookup>>

\* After the loop: the emitter, the listener and the stores become disposables.
InitFinish ==
  /\ phase = "init"
  /\ initI > Len(initWp)
  /\ disposables' = disposables \o <<EmitterD, ListenerD>> \o StoreDs(preferences)
  /\ listening' = TRUE
  /\ phase' = "ready"
  /\ UNCHANGED <<rootVars, cmd, workspaceFolders, initWp, initI, stores, preferences, handlers,
                 emitterDisposed, disposeCalls, inFlightAtDispose, nChanges,
                 nEvents, storesBefore, prevFolders, fired, lookup>>

\* ------------------------------------------- onDidChangeWorkspaceFolders
\* preferencesEmitter.fire(pairArr) as seen by the subscribers.
FireRecord(ev, pairArr, prefs, wf) ==
  [ev |-> ev, pairs |-> pairArr, held |-> prefs, folders |-> wf,
   live |-> ~emitterDisposed]

\* The handler up to its first suspension point, for the new folder value wf.
HandlerStart(wf) ==
  /\ nEvents' = nEvents + 1
  /\ storesBefore' = Len(stores)
  /\ prevFolders' = workspaceFolders
  /\ stores' = DisposeStores(stores, Range(preferences))
  /\ IF ~wf.defined
       THEN UNCHANGED <<preferences, handlers, fired, disposables>>
       ELSE IF Len(wf.list) = 0
         THEN /\ preferences' = <<>>
              /\ fired' = Append(fired, FireRecord(nEvents + 1, <<>>, <<>>, wf))
              /\ UNCHANGED <<handlers, disposables>>
         ELSE /\ preferences' = <<>>
              /\ handlers' = handlers \cup
                   {[ev |-> nEvents + 1, wp |-> wf.list, i |-> 1, pairArr |-> <<>>]}
              /\ UNCHANGED <<fired, disposables>>

\* The editor adds or removes folders and fires onDidChangeWorkspaceFolders;
\* at most max changes are made in one behaviour.
FolderChangeUpTo(max) ==
  /\ nChanges < max
  /\ \E wf \in WorkspaceFolderValues :
       /\ OpenSet(wf) # OpenSet(workspaceFolders)
       /\ workspaceFolders' = wf
       /\ nChanges' = nChanges + 1
       /\ IF listening
            THEN HandlerStart(wf)
            ELSE UNCHANGED <<stores, preferences, handlers, fired, disposables,
                             nEvents, storesBefore, prevFolders>>
  /\ UNCHANGED <<rootVars, cmd, phase, initWp, initI, listening, emitterDisposed, disposeCalls,
                 inFlightAtDispose, lookup>>

FolderChange == FolderChangeUpTo(MaxEvents)

\* Preferences.Create(w) resolves for a suspended handler: lines 84-95.
HandlerResume ==
  /\ \E h \in handlers :
       LET id == Len(stores) + 1
           w == h.wp[h.i]
           pairs == Append(h.pairArr, [preference |-> id, workspace |-> w])
           prefs == Append(preferences, id)
       IN /\ stores' = Append(stores, NewStore(w))
          /\ preferences' = prefs
          /\ IF h.i < Len(h.wp)
               THEN /\ handlers' = (handlers \ {h}) \cup
                          {[h EXCEPT !.i = h.i + 1, !.pairArr = pairs]}
                    /\ UNCHANGED <<fired, disposables>>
               ELSE /\ handlers' = handlers \ {h}
                    /\ fired' = Append(fired,
                                  FireRecord(h.ev, pairs, prefs, workspaceFolders))
                    /\ disposables' = disposables \o StoreDs(prefs)
  /\ UNCHANGED <<rootVars, cmd, workspaceFolders, phase, initWp, initI, listening,
                 emitterDisposed, disposeCalls, inFlightAtDispose, nChanges,
                 nEvents, storesBefore, prevFolders, lookup>>

\* ---------------------------------------------------------------- dispose
DisposedIds == {disposables[k].id : k \in {j \in 1..Len(disposables) :
                                              disposables[j].k = "store"}}

Dispose ==
  /\ phase = "ready"
  /\ disposeCalls < MaxDisposeCalls
  /\ disposeCalls' = disposeCalls + 1
  /\ inFlightAtDispose' = IF disposeCalls = 0 THEN handlers # {} ELSE inFlightAtDispose
  /\ stores' = DisposeStores(stores, DisposedIds)
  /\ emitterDisposed' = (emitterDisposed \/ EmitterD \in Range(disposables))
  /\ listening' = (listening /\ ListenerD \notin Range(disposables))
  /\ UNCHANGED <<rootVars, cmd, workspaceFolders, phase, initWp, initI, preferences, disposables,
                 handlers, nChanges, nEvents, storesBefore, prevFolders, fired,
                 lookup>>

\* ------------------------------------------------- a getPreferences call
Lookup ==
  /\ phase = "ready"
  /\ \E f \in Folders :
       lookup' = [folder |-> f, result |-> getPreferences(preferences, stores, f)]
  /\ UNCHANGED <<rootVars, cmd, workspaceFolders, phase, initWp, initI, stores, preferences,
                 disposables, handlers, listening, emitterDisposed, disposeCalls,
                 inFlightAtDispose, nChanges, nEvents, storesBefore, prevFolders,
                 fired>>

Next ==
  \/ InitCreate
  \/ InitFinish
  \/ FolderChange
  \/ HandlerResume
  \/ Dispose
  \/ Lookup

Spec == Init /\ [][Next]_vars

\* ------------------------------------------ getFirstOrSelectedWorkspace
\* Mutant of getFirstOrSelectedWorkspace: the picker is shown for one folder too.
getFirstOrSelectedWorkspace_PickForOne(wp) ==
  LET c == [IdleCmd EXCEPT !.op = "getFirstOrSelectedWorkspace", !.wp = wp]
  IN IF ~wp.defined
       THEN Returned(c, "returned")
       ELSE IF Len(wp.list) >= 1
         THEN Await(c, "pickFolder", "showWorkspaceFolderPick", "")
         ELSE Returned(c, "returned")

\* The call up to its first suspension point, for the folder value wp.
getFirstOrSelectedWorkspace(wp) ==
  LET c == [IdleCmd EXCEPT !.op = "getFirstOrSelectedWorkspace", !.wp = wp]
  IN IF ~wp.defined
       THEN Returned(c, "returned")
       ELSE IF Len(wp.list) > 1
         THEN Await(c, "pickFolder", "showWorkspaceFolderPick", "")
         ELSE IF Len(wp.list) = 1
           THEN Returned([c EXCEPT !.folder = wp.list[1]], "returned")
           ELSE Returned(c, "returned")

GetFirstStart ==
  /\ phase = "ready"
  /\ cmd.pc = "idle"
  /\ cmd' = getFirstOrSelectedWorkspace(workspaceFolders)
  /\ UNCHANGED <<regVars, rootVars>>

\* showWorkspaceFolderPick returns a folder, or undefined when dismissed.
GetFirstPicked ==
  /\ cmd.pc = "pickFolder"
  /\ \E res \in Folders \cup {NoFolder} :
       cmd' = Returned([Resumed(cmd, res) EXCEPT !.folder = res], "returned")
  /\ UNCHANGED <<regVars, rootVars>>

\* ------------------------------------------------- getIsCurrentlyValid
DebugIsCurrentlyValid(currentLanguage) ==
  currentLanguage = "none" \/ currentLanguage = "cpp"
DeployIsCurrentlyValid(currentLanguage) ==
  currentLanguage = "none" \/ currentLanguage = "cpp"
\* Mutant of SimulateIsCurrentlyValid: 'none' is not accepted.
SimulateIsCurrentlyValid_CppOnly(currentLanguage) == currentLanguage = "cpp"

SimulateIsCurrentlyValid(currentLanguage) ==
  currentLanguage = "none" \/ currentLanguage = "cpp"

Kinds == {"debug", "deploy", "simulate"}

IsCurrentlyValid(kind, currentLanguage) ==
  CASE kind = "debug" -> DebugIsCurrentlyValid(currentLanguage)
    [] kind = "deploy" -> DeployIsCurrentlyValid(currentLanguage)
    [] kind = "simulate" -> SimulateIsCurrentlyValid(currentLanguage)

BoolResult(b) == IF b THEN "true" ELSE "false"

\* getIsCurrentlyValid(workspace) of the deployer variant kind; language is
\* what the store's getCurrentLanguage() answers.
getIsCurrentlyValid(kind, w, language) ==
  LET c == [IdleCmd EXCEPT !.op = "getIsCurrentlyValid", !.kind = kind,
                           !.workspace = w]
      prefs == getPreferences(preferences, stores, w)
  IN IF prefs = NoStore
       THEN Raised(c)
       ELSE Returned([c EXCEPT !.store = prefs, !.language = language],
                     BoolResult(IsCurrentlyValid(kind, language)))

ValidCall ==
  /\ phase = "ready"
  /\ cmd.pc = "idle"
  /\ \E kind \in Kinds, w \in Folders, language \in Languages :
       cmd' = getIsCurrentlyValid(kind, w, language)
  /\ UNCHANGED <<regVars, rootVars>>

\* ------------------------------------------------------------ runDeployer
DebugCommand(teamNumber) == "deploy -PdebugMode -PteamNumber=" \o ToString(teamNumber)
DeployCommand(teamNumber) == "deploy -PteamNumber=" \o ToString(teamNumber)
SimulateCommand(teamNumber) == "simulateExternalCpp"

CommandOf(kind, teamNumber) ==
  CASE kind = "debug" -> DebugCommand(teamNumber)
    [] kind = "deploy" -> DeployCommand(teamNumber)
    [] kind = "simulate" -> SimulateCommand(teamNumber)

\* workspace.uri.fsPath
FsPath(w) == w

\* Mutant of RunDeployerStart: gradleRun is not awaited, the descriptor index
\* is read at once.
RunDeployerStart_NoAwait(kind, teamNumber, w, windows, online) ==
  LET c == [IdleCmd EXCEPT !.op = "runDeployer", !.kind = kind,
                           !.team = teamNumber, !.workspace = w,
                           !.windows = windows]
      prefs == getPreferences(preferences, stores, w)
  IN IF prefs = NoStore
       THEN Raised(c)
       ELSE Await(Await([c EXCEPT !.store = prefs,
                                  !.calls = <<Ret("getOnline", online)>>],
                        "build", "gradleRun",
                        [command |-> CommandOf(kind, teamNumber),
                         cwd |-> FsPath(w), workspace |-> w, online |-> online]),
                  IF kind = "deploy" THEN "build" ELSE "readIndex",
                  "readFileAsync", "debuginfo.json")

\* Lines 59-61, 140-142, 170-172: the command, the online flag of the
\* workspace's preferences, and the build-runner call.
RunDeployerStart(kind, teamNumber, w, windows, online) ==
  LET c == [IdleCmd EXCEPT !.op = "runDeployer", !.kind = kind,
                           !.team = teamNumber, !.workspace = w,
                           !.windows = windows]
      prefs == getPreferences(preferences, stores, w)
  IN IF prefs = NoStore
       THEN Raised(c)
       ELSE Await([c EXCEPT !.store = prefs,
                            !.calls = <<Ret("getOnline", online)>>],
                  "build", "gradleRun",
                  [command |-> CommandOf(kind, teamNumber), cwd |-> FsPath(w),
                   workspace |-> w, online |-> online])

RunStart ==
  /\ phase = "ready"
  /\ cmd.pc = "idle"
  /\ \E kind \in Kinds, teamNumber \in Teams, w \in Folders,
        windows \in BOOLEAN, online \in BOOLEAN :
       cmd' = RunDeployerStart(kind, teamNumber, w, windows, online)
  /\ UNCHANGED <<regVars, rootVars>>

IndexFile(kind) == IF kind = "debug" THEN "debuginfo.json" ELSE "desktopinfo.json"

\* Mutant of AfterBuild: the exit code of the build-runner is not tested.
AfterBuild_IgnoresExit(c, result) ==
  LET c1 == Resumed(c, result)
  IN IF c.kind = "deploy"
       THEN Returned(c1, BoolResult(result = 0))
       ELSE Await(c1, "readIndex", "readFileAsync",
                  PathJoin(<<FsPath(c.workspace), "build", "debug",
                             IndexFile(c.kind)>>, c.windows))

\* Lines 62-66, 143-147, 173-177: the build-runner returned result.
AfterBuild(c, result) ==
  LET c1 == Resumed(c, result)
  IN IF result # 0
       THEN Returned(c1, "false")
       ELSE IF c.kind = "deploy"
         THEN Returned(c1, "true")
         ELSE Await(c1, "readIndex", "readFileAsync",
                    PathJoin(<<FsPath(c.workspace), "build", "debug",
                               IndexFile(c.kind)>>, c.windows))

BuildReturns ==
  /\ cmd.pc = "build"
  /\ \E result \in ExitCodes : cmd' = AfterBuild(cmd, result)
  /\ UNCHANGED <<regVars, rootVars>>

\* The entries of the descriptor index: the t-th artifact / target.
ArtifactName(t) == "artifact" \o ToString(t)
DebugFile(t) == "target" \o ToString(t) \o ".json"
SimulateName(t) == "sim" \o ToString(t)
LaunchFile(t) == "/build/exe" \o ToString(t)
SrcPaths == <<"/src/main", "/src/main">>

\* new Set<string>(files), in insertion order.
RECURSIVE Dedup(_)
Dedup(files) ==
  IF files = <<>> THEN <<>>
  ELSE LET init == Dedup(SubSeq(files, 1, Len(files) - 1))
           last == files[Len(files)]
       IN IF last \in Range(init) THEN init ELSE Append(init, last)

RECURSIVE JoinDirs(_)
JoinDirs(files) ==
  IF files = <<>> THEN "" ELSE Dirname(Head(files)) \o ";" \o JoinDirs(Tail(files))

\* Lines 89-97 and 220-228: the library search path of the sofiles.
SoLibPath(sofiles) ==
  LET soPath == JoinDirs(Dedup(sofiles))
  IN IF Len(soPath) = 0 THEN "" ELSE SubSeq(soPath, 1, Len(soPath) - 1)

\* Lines 84-86: the chosen artifact's descriptor file is read.
DebugReadTarget(c, t) ==
  Await([c EXCEPT !.target = t], "readTarget", "readFileAsync",
        PathJoin(<<FsPath(c.workspace), "build", "debug", DebugFile(t)>>,
                 c.windows))

\* Mutant of SimulateLaunch: the host platform is not tested, the Unix
\* launcher is used everywhere.
SimulateLaunch_AlwaysUnix(c, d, stop) ==
  LET prefs == getPreferences(preferences, stores, c.workspace)
  IN IF prefs = NoStore
       THEN Raised(c)
       ELSE Await([c EXCEPT !.sofiles = d.sofiles],
                  "launch", "startUnixSimulation",
                  [clang |-> d.clang,
                   executablePath |-> LaunchFile(c.target),
                   extensions |-> c.extensions,
                   soLibPath |-> SoLibPath(d.sofiles),
                   srcPaths |-> Range(SrcPaths),
                   stopAtEntry |-> stop,
                   workspace |-> c.workspace])

\* Lines 219-251: the launch configuration of the host platform; stop is what
\* the store's getStopSimulationOnEntry() answers.
SimulateLaunch(c, d, stop) ==
  LET prefs == getPreferences(preferences, stores, c.workspace)
  IN IF prefs = NoStore
       THEN Raised(c)
       ELSE IF ~c.windows
         THEN Await([c EXCEPT !.sofiles = d.sofiles],
                    "launch", "startUnixSimulation",
                    [clang |-> d.clang,
                     executablePath |-> LaunchFile(c.target),
                     extensions |-> c.extensions,
                     soLibPath |-> SoLibPath(d.sofiles),
                     srcPaths |-> Range(SrcPaths),
                     stopAtEntry |-> stop,
                     workspace |-> c.workspace])
         ELSE Await(c, "launch", "startWindowsSimulation",
                    [extensions |-> c.extensions,
                     launchfile |-> LaunchFile(c.target),
                     stopAtEntry |-> stop,
                     workspace |-> c.workspace])

\* Lines 196-210: the extensions of the chosen target t.
SimulateExtensions(c, t, exts, d, stop) ==
  LET c1 == [c EXCEPT !.target = t, !.exts = exts]
  IN IF Len(exts) > 0
       THEN Await(c1, "pickExtensions", "showQuickPick",
                  [items |-> [k \in 1..Len(exts) |-> Basename(exts[k])],
                   canPickMany |-> TRUE])
       ELSE SimulateLaunch(c1, d, stop)

\* Lines 81-82 and 193-194: the target is chosen.
AfterTarget(c, t, exts, d, stop) ==
  IF c.kind = "debug"
    THEN DebugReadTarget(c, t)
    ELSE SimulateExtensions(c, t, exts, d, stop)

\* Mutant of AfterReadIndex: a failed read is caught and reported as failure.
AfterReadIndex_CatchesError(c, ok, n, exts, d, stop) ==
  IF ~ok
    THEN Returned(Resumed(c, ReadError), "false")
    ELSE LET c1 == [Resumed(c, ReadOk("index", n)) EXCEPT !.n = n]
         IN IF n > 1
              THEN Await(c1, "pickArtifact", "showQuickPick",
                         [items |-> [t \in 1..n |->
                                       IF c.kind = "debug" THEN ArtifactName(t)
                                                           ELSE SimulateName(t)],
                          canPickMany |-> FALSE])
              ELSE IF n = 0
                THEN Raised(c1)
                ELSE AfterTarget(c1, 1, exts, d, stop)

\* Lines 67-76 and 178-188: the index was read (ok) and lists n entries.
AfterReadIndex(c, ok, n, exts, d, stop) ==
  IF ~ok
    THEN Raised(Resumed(c, ReadError))
    ELSE LET c1 == [Resumed(c, ReadOk("index", n)) EXCEPT !.n = n]
         IN IF n > 1
              THEN Await(c1, "pickArtifact", "showQuickPick",
                         [items |-> [t \in 1..n |->
                                       IF c.kind = "debug" THEN ArtifactName(t)
                                                           ELSE SimulateName(t)],
                          canPickMany |-> FALSE])
              ELSE IF n = 0
                THEN Raised(c1)
                ELSE AfterTarget(c1, 1, exts, d, stop)

ReadIndexReturns ==
  /\ cmd.pc = "readIndex"
  /\ \E ok \in BOOLEAN, n \in 0..MaxTargets, exts \in ExtLists,
        d \in TargetDescs, stop \in BOOLEAN :
       cmd' = AfterReadIndex(cmd, ok, n, exts, d, stop)
  /\ UNCHANGED <<regVars, rootVars>>

\* Mutant of AfterPickArtifact: a dismissed picker keeps the first entry.
AfterPickArtifact_KeepsFirst(c, picked, exts, d, stop) ==
  AfterTarget(Resumed(c, picked), IF picked = 0 THEN 1 ELSE picked, exts, d, stop)

\* Lines 77-82 and 189-194: the artifact picker returned picked (0: dismissed).
AfterPickArtifact(c, picked, exts, d, stop) ==
  LET c1 == Resumed(c, picked)
  IN IF picked = 0
       THEN Returned([c1 EXCEPT !.calls = Append(@,
                        Call("showInformationMessage", "Artifact cancelled"))],
                     "false")
       ELSE AfterTarget(c1, picked, exts, d, stop)

PickArtifactReturns ==
  /\ cmd.pc = "pickArtifact"
  /\ \E picked \in 0..cmd.n, exts \in ExtLists, d \in TargetDescs,
        stop \in BOOLEAN :
       cmd' = AfterPickArtifact(cmd, picked, exts, d, stop)
  /\ UNCHANGED <<regVars, rootVars>>

\* Lines 87-115: the target descriptor was read (ok) and holds d.
AfterReadTarget(c, ok, d) ==
  IF ~ok
    THEN Raised(Resumed(c, ReadError))
    ELSE Await([Resumed(c, ReadOk("descriptor", 1)) EXCEPT !.sofiles = d.sofiles],
               "launch", "startDebugging",
               [executablePath |-> LaunchFile(c.target),
                gdbPath |-> "/usr/bin/gdb",
                soLibPath |-> SoLibPath(d.sofiles),
                srcPaths |-> Range(SrcPaths),
                sysroot |-> IF d.sysroot = <<>> THEN "" ELSE d.sysroot[1],
                target |-> ArtifactName(c.target),
                workspace |-> c.workspace])

ReadTargetReturns ==
  /\ cmd.pc = "readTarget"
  /\ \E ok \in BOOLEAN, d \in TargetDescs : cmd' = AfterReadTarget(cmd, ok, d)
  /\ UNCHANGED <<regVars, rootVars>>

\* Lines 211-216: the chosen extension paths, each followed by path.delimiter.
RECURSIVE JoinExtensions(_, _, _, _)
JoinExtensions(exts, picks, k, windows) ==
  IF k > Len(exts) THEN ""
  ELSE (IF k \in picks THEN exts[k] \o PathDelimiter(windows) ELSE "")
         \o JoinExtensions(exts, picks, k + 1, windows)

\* The extension picker returned: dismissed, or the picked items.
AfterPickExtensions(c, dismissed, picks, d, stop) ==
  LET c1 == Resumed(c, [dismissed |-> dismissed, picks |-> picks])
      extensions == IF dismissed THEN ""
                    ELSE JoinExtensions(c.exts, picks, 1, c.windows)
  IN SimulateLaunch([c1 EXCEPT !.extensions = extensions], d, stop)

PickExtensionsReturns ==
  /\ cmd.pc = "pickExtensions"
  /\ \E dismissed \in BOOLEAN, picks \in SUBSET (1..Len(cmd.exts)),
        d \in TargetDescs, stop \in BOOLEAN :
       /\ dismissed => picks = {}
       /\ cmd' = AfterPickExtensions(cmd, dismissed, picks, d, stop)
  /\ UNCHANGED <<regVars, rootVars>>

\* Lines 115-117 and 241-252: the launcher returned.
LaunchReturns ==
  /\ cmd.pc = "launch"
  /\ cmd' = Returned(Resumed(cmd, "started"), "true")
  /\ UNCHANGED <<regVars, rootVars>>

\* Folder changes while commands run.
RunFolderChange == FolderChangeUpTo(MaxRunEvents)

NextDeploy ==
  \/ InitCreate
  \/ InitFinish
  \/ RunFolderChange
  \/ HandlerResume
  \/ GetFirstStart
  \/ GetFirstPicked
  \/ ValidCall
  \/ RunStart
  \/ BuildReturns
  \/ ReadIndexReturns
  \/ PickArtifactReturns
  \/ ReadTargetReturns
  \/ PickExtensionsReturns
  \/ LaunchReturns

SpecDeploy == Init /\ [][NextDeploy]_vars

\* ------------------------------------------------------------ DebugDeploy
\* Mutant of DebugDeployNew: allowDebug is not tested.
DebugDeployNew_AlwaysDebug(api, allowDebug) ==
  [api EXCEPT !.languages = Append(@, "cpp"),
              !.codeDeploy = Append(@, "deploy"),
              !.codeDebug = Append(@, "debug"),
              !.codeSimulate = Append(@, "simulate")]

\* Lines 267-281: what the constructor registers with debugDeployApi.
DebugDeployNew(api, allowDebug) ==
  LET api1 == [api EXCEPT !.languages = Append(@, "cpp")]
      api2 == [api1 EXCEPT !.codeDeploy = Append(@, "deploy")]
  IN IF allowDebug
       THEN [api2 EXCEPT !.codeDebug = Append(@, "debug"),
                         !.codeSimulate = Append(@, "simulate")]
       ELSE api2

\* new DebugDeploy(debugDeployApi, preferences, allowDebug), with the registry
\* PreferencesAPI.Create() resolved to.
DebugDeployConstructor ==
  /\ phase = "ready"
  /\ ~root.constructed
  /\ \E allowDebug \in BOOLEAN :
       /\ deployApi' = DebugDeployNew(deployApi, allowDebug)
       /\ root' = [constructed |-> TRUE, allowDebug |-> allowDebug,
                   disposeCalls |-> 0]
  /\ UNCHANGED <<regVars, cmd>>

\* Lines 284-286: DebugDeploy.dispose() has an empty body.
DebugDeployDispose ==
  /\ root.constructed
  /\ root.disposeCalls < MaxDisposeCalls
  /\ root' = [root EXCEPT !.disposeCalls = @ + 1]
  /\ UNCHANGED <<regVars, cmd, deployApi>>

\* The deployer variants the host can call: those registered with it.
Registered(api) ==
  Range(api.codeDeploy) \cup Range(api.codeDebug) \cup Range(api.codeSimulate)

\* The host asks a registered deployer whether it applies to a workspace.
RegisteredValidCall ==
  /\ phase = "ready"
  /\ cmd.pc = "idle"
  /\ \E kind \in Registered(deployApi), w \in Folders, language \in Languages :
       cmd' = getIsCurrentlyValid(kind, w, language)
  /\ UNCHANGED <<regVars, rootVars>>

NextRoot ==
  \/ InitCreate
  \/ InitFinish
  \/ RunFolderChange
  \/ HandlerResume
  \/ DebugDeployConstructor
  \/ DebugDeployDispose
  \/ RegisteredValidCall

SpecRoot == Init /\ [][NextRoot]_vars

\* ================================================================ claims
OpenFolders == OpenSet(workspaceFolders)

\* The folders of the stores held, in the order of this.preferences.
PrefWorkspaces == [k \in 1..Len(preferences) |-> stores[preferences[k]].workspace]

\* Every folder change was delivered to the registry, every handler has
\* finished, and the registry is in use.
Settled ==
  /\ phase = "ready"
  /\ listening
  /\ handlers = {}
  /\ nEvents >= 1
  /\ nChanges = nEvents

\* C1 (as claimed): once the handler of the latest folder-change event has
\* finished, getPreferences(f) returns, for every open folder f, a store whose
\* folder is f, and getPreferences returns no store that existed before that
\* event.
C1_RebuildAsClaimed ==
  Settled =>
    /\ \A f \in OpenFolders :
         LET r == getPreferences(preferences, stores, f)
         IN r # NoStore /\ stores[r].workspace = f
    /\ \A f \in Folders :
         LET r == getPreferences(preferences, stores, f)
         IN r = NoStore \/ r > storesBefore

\* The pairs the registry holds for the stores prefs.
PairsOf(prefs) ==
  [k \in 1..Len(prefs) |->
     [preference |-> prefs[k], workspace |-> stores[prefs[k]].workspace]]

\* C2 (as claimed): every delivered folder-change event results in exactly one
\* onDidPreferencesFolderChanged event, whose payload is the complete set of
\* (store, folder) pairs the registry holds, one pair per open folder.
C2_OneEventPerChangeAsClaimed ==
  Settled =>
    /\ \A e \in 1..nEvents :
         Cardinality({k \in 1..Len(fired) : fired[k].ev = e}) = 1
    /\ \A k \in 1..Len(fired) :
         /\ fired[k].pairs = PairsOf(fired[k].held)
         /\ fired[k].folders.defined
         /\ [j \in 1..Len(fired[k].pairs) |-> fired[k].pairs[j].workspace]
              = fired[k].folders.list

\* C3 (as claimed): at every point where a getPreferences call can run, the
\* store sequence is the complete sequence of the old folder set or the
\* complete sequence of the new folder set, never an empty or prefix-only
\* sequence for a non-empty folder set. (Stated for the points at which at
\* most one handler is suspended.)
C3_RebuildAtomicAsClaimed ==
  (phase = "ready" /\ listening /\ nEvents >= 1 /\ nChanges = nEvents
     /\ workspaceFolders.defined /\ Cardinality(handlers) <= 1)
    => PrefWorkspaces \in {prevFolders.list, workspaceFolders.list}

\* C4 (as claimed): once all handlers have finished, the sequence holds exactly
\* one store for each open folder and none for a folder that is not open, also
\* when an event was delivered while an earlier handler was suspended.
C4_OneStorePerFolderAsClaimed ==
  (Settled /\ workspaceFolders.defined /\ prevFolders.defined) =>
    \A f \in Folders :
      Cardinality({k \in 1..Len(preferences) : PrefWorkspaces[k] = f})
        = IF f \in OpenFolders THEN 1 ELSE 0

\* C5: a getPreferences call returns the absent value for an empty sequence,
\* the first store holding the folder when one holds it, and otherwise the
\* first store of the sequence.
C5_LookupFallback ==
  [][lookup' # lookup =>
       LET f == lookup'.folder
           r == lookup'.result
           hits == {k \in 1..Len(preferences) : PrefWorkspaces[k] = f}
       IN /\ preferences = <<>> => r = NoStore
          /\ (preferences # <<>> /\ hits = {}) => r = preferences[1]
          /\ hits # {} =>
               \E k \in hits : r = preferences[k] /\ \A j \in hits : k <= j]_vars

\* C5 witness: a lookup of a folder no store holds fell back to the first store.
C5_Witness ==
  /\ lookup.folder # NoFolder
  /\ preferences # <<>>
  /\ lookup.folder \notin Range(PrefWorkspaces)
  /\ lookup.result = preferences[1]

CallsOf(c, ops) ==
  {k \in 1..Len(c.calls) : c.calls[k].ph = "call" /\ c.calls[k].op \in ops}
RetsOf(c, ops) ==
  {k \in 1..Len(c.calls) : c.calls[k].ph = "ret" /\ c.calls[k].op \in ops}
\* The call at position k has completed before position j.
CompletedBefore(c, k, j) ==
  k + 1 < j /\ c.calls[k + 1].ph = "ret" /\ c.calls[k + 1].op = c.calls[k].op

Builders == {"gradleRun"}
Readers == {"readFileAsync"}
Pickers == {"showQuickPick"}
Launchers == {"startDebugging", "startUnixSimulation", "startWindowsSimulation"}

\* C7: getFirstOrSelectedWorkspace returns none for an undefined or empty
\* folder list, the sole folder of a one-folder list, and for two or more
\* folders what the folder picker returned (none when dismissed); the picker
\* is invoked exactly when two or more folders are open.
C7_FolderCountBranching ==
  cmd.op = "getFirstOrSelectedWorkspace" =>
    LET wp == cmd.wp
        shown == Cardinality(CallsOf(cmd, {"showWorkspaceFolderPick"}))
        many == wp.defined /\ Len(wp.list) >= 2
    IN /\ shown = IF many THEN 1 ELSE 0
       /\ cmd.pc = "done" =>
            /\ cmd.result = "returned"
            /\ ~wp.defined => cmd.folder = NoFolder
            /\ (wp.defined /\ Len(wp.list) = 0) => cmd.folder = NoFolder
            /\ (wp.defined /\ Len(wp.list) = 1) => cmd.folder = wp.list[1]
            /\ many => cmd.folder = cmd.calls[Len(cmd.calls)].arg

\* C7 witness: two folders were open, the picker was shown and dismissed.
C7_Witness ==
  /\ cmd.op = "getFirstOrSelectedWorkspace"
  /\ cmd.pc = "done"
  /\ Len(cmd.wp.list) = 2
  /\ CallsOf(cmd, {"showWorkspaceFolderPick"}) # {}
  /\ cmd.folder = NoFolder

\* C8: for each deployer variant and every workspace for which getPreferences
\* yields a store, getIsCurrentlyValid returns true exactly when the language
\* the store reports is 'cpp' or 'none', and the call changes neither the
\* registry's store sequence nor any store.
C8_Applicability ==
  /\ [](cmd.op = "getIsCurrentlyValid" =>
          /\ cmd.pc = "done"
          /\ cmd.store # NoStore =>
               /\ cmd.result \in {"true", "false"}
               /\ cmd.result = "true" <=> cmd.language \in {"cpp", "none"})
  /\ [][(cmd'.op = "getIsCurrentlyValid" /\ cmd.op = "none")
          => (preferences' = preferences /\ stores' = stores)]_vars

\* C8 witness: the simulate variant rejected a workspace whose language is java
\* and whose store the registry holds.
C8_Witness ==
  /\ cmd.op = "getIsCurrentlyValid"
  /\ cmd.kind = "simulate"
  /\ cmd.store # NoStore
  /\ cmd.language = "java"
  /\ cmd.result = "false"

\* C9 (as claimed): for every team number n and workspace w a finished run of
\* the deploy-only variant has invoked the build-runner exactly once, with
\* command 'deploy -PteamNumber=n', w's path as working directory and the
\* online flag of w's preferences as network flag; it returned true exactly
\* when the exit code was 0, and it read no file, showed no picker and invoked
\* no launcher. (Stated for the runs whose workspace is an open folder.)
C9_DeployOnlyAsClaimed ==
  (cmd.op = "runDeployer" /\ cmd.kind = "deploy" /\ cmd.pc = "done"
     /\ cmd.workspace \in OpenFolders) =>
    LET runs == CallsOf(cmd, Builders)
    IN /\ Cardinality(runs) = 1
       /\ \A k \in runs :
            /\ cmd.calls[k].arg.command = "deploy -PteamNumber=" \o ToString(cmd.team)
            /\ cmd.calls[k].arg.cwd = cmd.workspace
            /\ k > 1 /\ cmd.calls[k - 1].op = "getOnline"
            /\ cmd.calls[k].arg.online = cmd.calls[k - 1].arg
            /\ k < Len(cmd.calls) /\ cmd.calls[k + 1].ph = "ret"
            /\ cmd.result = IF cmd.calls[k + 1].arg = 0 THEN "true" ELSE "false"
       /\ CallsOf(cmd, Readers \cup Pickers \cup Launchers) = {}

\* C10 (as claimed): within one runDeployer call of the debug or simulate
\* variant the build-runner completes before any descriptor file is read,
\* every descriptor file read completes before any picker is shown, and every
\* picker completes before a launcher is invoked.
C10_StepOrderAsClaimed ==
  (cmd.op = "runDeployer" /\ cmd.kind \in {"debug", "simulate"}) =>
    /\ \A r \in CallsOf(cmd, Readers) :
         \A b \in CallsOf(cmd, Builders) : CompletedBefore(cmd, b, r)
    /\ \A p \in CallsOf(cmd, Pickers) :
         \A r \in CallsOf(cmd, Readers) : CompletedBefore(cmd, r, p)
    /\ \A l \in CallsOf(cmd, Launchers) :
         \A p \in CallsOf(cmd, Pickers) : CompletedBefore(cmd, p, l)

\* C10 (amended): the build-runner completes before any descriptor file is
\* read; the read of the descriptor index (the first read) completes before
\* any picker is shown; every descriptor file read and every picker completes
\* before a launcher is invoked; and no two of these steps overlap: each is
\* started only after the one started before it has completed.
C10_StepOrder ==
  (cmd.op = "runDeployer" /\ cmd.kind \in {"debug", "simulate"}) =>
    LET steps == CallsOf(cmd, Builders \cup Readers \cup Pickers \cup Launchers)
    IN /\ \A r \in CallsOf(cmd, Readers) :
            \A b \in CallsOf(cmd, Builders) : CompletedBefore(cmd, b, r)
       /\ \A p \in CallsOf(cmd, Pickers) :
            \E r \in CallsOf(cmd, Readers) :
              /\ CompletedBefore(cmd, r, p)
              /\ \A q \in CallsOf(cmd, Readers) : r <= q
       /\ \A l \in CallsOf(cmd, Launchers) :
            \A s \in CallsOf(cmd, Readers \cup Pickers) : CompletedBefore(cmd, s, l)
       /\ \A s \in steps : \A t \in steps : s < t => CompletedBefore(cmd, s, t)

\* C10 witness: a debug run that listed two artifacts showed the picker, then
\* read the chosen artifact's descriptor, then launched and returned true.
C10_Witness ==
  /\ cmd.op = "runDeployer"
  /\ cmd.kind = "debug"
  /\ cmd.pc = "done"
  /\ cmd.result = "true"
  /\ Cardinality(CallsOf(cmd, Readers)) = 2
  /\ \E p \in CallsOf(cmd, Pickers) : \E r \in CallsOf(cmd, Readers) : p < r

\* The values the calls of the operations ops returned in a frame's log.
ReturnsOf(c, ops) == {c.calls[k].arg : k \in RetsOf(c, ops)}

\* C11: in the debug and simulate variants, once the build-runner has returned
\* a non-zero exit code the run has returned false (it did not raise), and it
\* read no descriptor file, showed no picker and invoked no launcher.
C11_BuildFailureShortCircuit ==
  (cmd.op = "runDeployer" /\ cmd.kind \in {"debug", "simulate"}
     /\ \E code \in ReturnsOf(cmd, Builders) : code # 0) =>
    /\ cmd.pc = "done"
    /\ cmd.result = "false"
    /\ CallsOf(cmd, Readers \cup Pickers \cup Launchers) = {}

\* C11 witness: a simulate run whose build exited with 1 returned false.
C11_Witness ==
  /\ cmd.op = "runDeployer"
  /\ cmd.kind = "simulate"
  /\ ReturnsOf(cmd, Builders) = {1}
  /\ cmd.result = "false"

\* Positions at which the single-select artifact picker returned undefined.
ArtifactCancels(c) ==
  {k \in RetsOf(c, Pickers) :
     /\ ~c.calls[k - 1].arg.canPickMany
     /\ c.calls[k].arg = 0}

\* C12: in the debug and simulate variants, once the single-select artifact
\* picker (shown after a successful build for a descriptor index of more than
\* one entry) has been cancelled, the run has returned false (it did not
\* raise), it has shown an informational message, and it has invoked no
\* launcher.
C12_ArtifactCancel ==
  (cmd.op = "runDeployer" /\ cmd.kind \in {"debug", "simulate"}
     /\ ArtifactCancels(cmd) # {}) =>
    /\ cmd.n > 1
    /\ ReturnsOf(cmd, Builders) = {0}
    /\ cmd.pc = "done"
    /\ cmd.result = "false"
    /\ CallsOf(cmd, {"showInformationMessage"}) # {}
    /\ CallsOf(cmd, Launchers) = {}

\* C12 witness: a debug run listing two artifacts had its picker cancelled.
C12_Witness ==
  /\ cmd.op = "runDeployer"
  /\ cmd.kind = "debug"
  /\ cmd.n = 2
  /\ ArtifactCancels(cmd) # {}
  /\ cmd.result = "false"

\* Positions at which the multi-select extension picker returned undefined.
ExtensionCancels(c) ==
  {k \in RetsOf(c, Pickers) :
     /\ c.calls[k - 1].arg.canPickMany
     /\ c.calls[k].arg.dismissed}

\* The launcher of the host platform of a simulate run.
HostLauncher(c) ==
  IF c.windows THEN "startWindowsSimulation" ELSE "startUnixSimulation"

\* C13 (as claimed): a finished simulate run whose chosen target declares at
\* least one extension and whose extension picker was cancelled has invoked
\* the launcher of the host platform exactly once, with an empty extensions
\* string in the launch configuration, and has returned true. (Stated for the
\* runs whose workspace is an open folder.)
C13_ExtensionCancelAsClaimed ==
  (cmd.op = "runDeployer" /\ cmd.kind = "simulate" /\ cmd.pc = "done"
     /\ Len(cmd.exts) > 0 /\ ExtensionCancels(cmd) # {}
     /\ cmd.workspace \in OpenFolders) =>
    /\ Cardinality(CallsOf(cmd, Launchers)) = 1
    /\ \A l \in CallsOf(cmd, Launchers) :
         /\ cmd.calls[l].op = HostLauncher(cmd)
         /\ cmd.calls[l].arg.extensions = ""
    /\ cmd.result = "true"

\* C13 restricted to the runs that found the workspace's preferences when the
\* launch configuration was built: what remains of the claim when the absent
\* preferences of C18 are set aside.
C13_ExtensionCancelWithStore ==
  (cmd.op = "runDeployer" /\ cmd.kind = "simulate" /\ cmd.pc = "done"
     /\ Len(cmd.exts) > 0 /\ ExtensionCancels(cmd) # {}
     /\ cmd.result # "raised") =>
    /\ Cardinality(CallsOf(cmd, Launchers)) = 1
    /\ \A l \in CallsOf(cmd, Launchers) :
         /\ cmd.calls[l].op = HostLauncher(cmd)
         /\ cmd.calls[l].arg.extensions = ""
    /\ cmd.result = "true"

\* The containing directories of files, in order.
DirsOf(files) == [k \in 1..Len(files) |-> Dirname(files[k])]

\* The entries of a sequence of strings joined by sep.
RECURSIVE JoinWith(_, _)
JoinWith(strs, sep) ==
  IF strs = <<>> THEN ""
  ELSE IF Len(strs) = 1 THEN strs[1]
  ELSE strs[1] \o sep \o JoinWith(Tail(strs), sep)

\* Launchers whose configuration carries a library search path.
PathLaunchers == {"startDebugging", "startUnixSimulation"}

\* C14 (as claimed): the library search path handed to the debug launcher and
\* to the Unix simulation launcher is the containing directory of each listed
\* shared-object file exactly once, joined by ';': no directory is repeated,
\* also when several distinct files share a directory.
C14_LibraryPathDedupAsClaimed ==
  cmd.op = "runDeployer" =>
    \A l \in CallsOf(cmd, PathLaunchers) :
      cmd.calls[l].arg.soLibPath = JoinWith(Dedup(DirsOf(cmd.sofiles)), ";")

\* C15: a simulate run that reaches launch invokes exactly one launcher. On a
\* non-Windows host it is the Unix launcher, and its configuration carries a
\* library search path and the toolchain (clang) flag; on a Windows host it is
\* the Windows launcher, and its configuration carries only executable path,
\* extensions, stop-at-entry and workspace. A run that returned true has
\* reached launch, and the other platform's launcher is never invoked.
C15_PlatformBranch ==
  (cmd.op = "runDeployer" /\ cmd.kind = "simulate") =>
    LET ls == CallsOf(cmd, Launchers)
    IN /\ Cardinality(ls) <= 1
       /\ (cmd.pc = "launch" \/ cmd.result = "true") => Cardinality(ls) = 1
       /\ \A l \in ls :
            IF cmd.windows
              THEN /\ cmd.calls[l].op = "startWindowsSimulation"
                   /\ DOMAIN cmd.calls[l].arg =
                        {"launchfile", "extensions", "stopAtEntry", "workspace"}
              ELSE /\ cmd.calls[l].op = "startUnixSimulation"
                   /\ {"soLibPath", "clang"} \subseteq DOMAIN cmd.calls[l].arg
                   /\ cmd.calls[l].arg.soLibPath = SoLibPath(cmd.sofiles)

\* C15 witness: a simulate run on Windows launched the Windows launcher and
\* returned true.
C15_Witness ==
  /\ cmd.op = "runDeployer"
  /\ cmd.kind = "simulate"
  /\ cmd.windows
  /\ cmd.result = "true"
  /\ \E l \in CallsOf(cmd, Launchers) : cmd.calls[l].op = "startWindowsSimulation"

\* C16: a constructed DebugDeploy has added the language choice 'cpp' exactly
\* once and registered the deploy-only variant exactly once, whatever
\* allowDebug is; it has registered the debug variant and the simulate variant
\* exactly once each when allowDebug is true and not at all when it is false;
\* and a dispose() call changes no registration.
C16_Registration ==
  /\ [](root.constructed =>
          /\ deployApi.languages = <<"cpp">>
          /\ deployApi.codeDeploy = <<"deploy">>
          /\ deployApi.codeDebug = IF root.allowDebug THEN <<"debug">> ELSE <<>>
          /\ deployApi.codeSimulate =
               IF root.allowDebug THEN <<"simulate">> ELSE <<>>)
  /\ [][root'.disposeCalls # root.disposeCalls => deployApi' = deployApi]_vars

\* C16 witness: a DebugDeploy constructed without allowDebug was disposed, and
\* the host called the deploy-only variant it registered.
C16_Witness ==
  /\ root.constructed
  /\ ~root.allowDebug
  /\ root.disposeCalls >= 1
  /\ deployApi.codeDebug = <<>>
  /\ cmd.op = "getIsCurrentlyValid"
  /\ cmd.kind = "deploy"

\* C17: in the debug and simulate variants, once a descriptor file read has
\* failed (after a successful build), the run has ended in an error outcome:
\* the failure left runDeployer, neither true nor false was returned, and no
\* launcher was invoked.
C17_MissingDescriptor ==
  (cmd.op = "runDeployer" /\ cmd.kind \in {"debug", "simulate"}
     /\ ReadError \in ReturnsOf(cmd, Readers)) =>
    /\ ReturnsOf(cmd, Builders) = {0}
    /\ cmd.pc = "done"
    /\ cmd.result = "raised"
    /\ CallsOf(cmd, Launchers) = {}

\* C17 witness: a debug run read the index, then failed to read the chosen
\* artifact's descriptor.
C17_Witness ==
  /\ cmd.op = "runDeployer"
  /\ cmd.kind = "debug"
  /\ Cardinality(CallsOf(cmd, Readers)) = 2
  /\ ReadError \in ReturnsOf(cmd, Readers)
  /\ cmd.result = "raised"

\* C18 (as claimed): a getIsCurrentlyValid or runDeployer call of a deployer
\* to which getPreferences returned the absent value (the registry held no
\* store) treats the absent preferences as defaults and does not raise.
\* (Stated for the calls whose workspace is an open folder.)
C18_AbsentPreferencesAsClaimed ==
  (cmd.op \in {"getIsCurrentlyValid", "runDeployer"} /\ cmd.pc = "done"
     /\ cmd.store = NoStore /\ cmd.workspace \in OpenFolders) =>
    cmd.result \in {"true", "false"}

\* C19 (as claimed): at every point between the registry's creation and its
\* dispose() call, after any sequence of folder-change events (an event with
\* an undefined folder list included), getPreferences returns no store on
\* which dispose has been called.
C19_NoDisposedStoreServedAsClaimed ==
  (phase = "ready" /\ disposeCalls = 0) =>
    \A f \in Folders :
      LET r == getPreferences(preferences, stores, f)
      IN r = NoStore \/ ~stores[r].disposed

\* C19 for the events that report a defined folder list: what remains of the
\* claim when the undefined branch of the handler is set aside.
C19_NoDisposedStoreServedIfDefined ==
  (phase = "ready" /\ disposeCalls = 0 /\ workspaceFolders.defined
     /\ prevFolders.defined) =>
    \A f \in Folders :
      LET r == getPreferences(preferences, stores, f)
      IN r = NoStore \/ ~stores[r].disposed

\* C20 (as claimed): for any interleaving of folder-change events and a
\* dispose() call, dispose() called while a rebuild is suspended in store
\* creation included, once dispose() has returned and every in-flight handler
\* has finished, every store the registry ever created has been disposed and
\* no change event was fired after dispose().
C20_NoStoreOutlivesAsClaimed ==
  (disposeCalls >= 1 /\ handlers = {}) =>
    /\ \A id \in 1..Len(stores) : stores[id].disposed
    /\ \A k \in 1..Len(fired) : fired[k].live

\* C20 for a dispose() call made while no handler is suspended: every store
\* ever created is disposed and nothing is fired afterwards.
C20_NoStoreOutlivesIfQuiescent ==
  (disposeCalls >= 1 /\ ~inFlightAtDispose) =>
    /\ handlers = {}
    /\ \A id \in 1..Len(stores) : stores[id].disposed
    /\ \A k \in 1..Len(fired) : fired[k].live

====
